---- MODULE Spec2Model ----
(***************************************************************************)
(* Model of src/app.py, the Streamlit bird-observation dashboard.          *)
(*                                                                         *)
(* The script runs top to bottom once per session start and once per       *)
(* widget interaction.  The state is the CSV file on disk, the             *)
(* st.cache_data store of load_data, the session's three multiselect       *)
(* values, and what the latest run produced (the elements it emitted, the  *)
(* KPI values and the data frames handed to the charts).                   *)
(*                                                                         *)
(* Cells.  A cell is a tuple: <<>> is the missing marker (NaN / NaT), <<v>>*)
(* is the value v.  In the file, the cells of the five numeric columns and *)
(* of Start_Time are the text of the field, a sequence of characters; the  *)
(* empty field is <<>>, which read_csv reads as missing.  The raw alphabet *)
(* is digits, "-", ":" and the letter "x" (no decimal point, no blanks).   *)
(***************************************************************************)
EXTENDS Integers, Sequences, FiniteSets

VARIABLES
    fileReadable,   \* Cleaned_Bird_Observation_Data.csv exists and parses
    file,           \* its contents: [columns, rows]
    cached,         \* st.cache_data holds an entry for load_data()
    cache,          \* the memoized table
    loadCalls,      \* executions of the body of load_data in this process
    years,          \* session value of the "Select Year(s)" widget
    seasons,        \* session value of the "Select Season(s)" widget
    locations,      \* session value of the "Select Location Type" widget
    status,         \* "idle" before the first run, then "done" or "error"
    completed,      \* statements of Script the latest run ran to completion
    rendered,       \* elements emitted by the latest run, in order
    df,             \* module-level df of the latest run
    filtered_df,    \* module-level filtered_df of the latest run
    metrics,        \* KPI label -> value, for the KPIs the latest run emitted
    charts          \* figure -> data frame handed to plotly, likewise

vars == <<fileReadable, file, cached, cache, loadCalls, years, seasons,
          locations, status, completed, rendered, df, filtered_df, metrics, charts>>

----------------------------------------------------------------------------
(* Bounds of the model *)

MaxRows == 2        \* rows of a file drawn from RowPool
MaxAggRows == 12    \* rows of a file of the many-categories family
MaxNull == 1        \* rows of such a file whose categories are missing
MaxLoads == 3       \* executions of load_data's body that are followed

----------------------------------------------------------------------------
(* pandas primitives *)

Null == <<>>

EmptyTable == [columns |-> {}, index |-> <<>>, rows |-> <<>>]

Min(a, b) == IF a < b THEN a ELSE b

\* df[c] as a sequence of cells, in row order
Col(t, c) == [i \in 1..Len(t.rows) |-> t.rows[i][c]]

IsNotNull(v) == v # Null

dropna(s) == SelectSeq(s, IsNotNull)

unique(s) == {s[i] : i \in DOMAIN s}

\* isin as a filter that an empty selection switches off
isin_or_unset(s, values) == [i \in DOMAIN s |-> values = {} \/ s[i] \in values]

\* Series.isin(values): the boolean mask
isin(s, values) == [i \in DOMAIN s |-> s[i] \in values]

RECURSIVE Keep(_, _)
Keep(mask, n) ==
    IF n = 0 THEN <<>>
    ELSE IF mask[n] THEN Append(Keep(mask, n - 1), n)
    ELSE Keep(mask, n - 1)

\* df[mask]: a new frame holding the rows where mask is True, index labels kept
BoolIndex(t, mask) ==
    LET pos == Keep(mask, Len(t.rows))
    IN  [columns |-> t.columns,
         index |-> [k \in 1..Len(pos) |-> t.index[pos[k]]],
         rows |-> [k \in 1..Len(pos) |-> t.rows[pos[k]]]]

\* frame[c] = values: column c added or replaced
SetItem(t, c, values) ==
    [columns |-> t.columns \cup {c},
     index |-> t.index,
     rows |-> [i \in 1..Len(t.rows) |->
                 [k \in t.columns \cup {c} |->
                     IF k = c THEN values[i] ELSE t.rows[i][k]]]]

Digits == {"0", "1", "2", "3", "4", "5", "6", "7", "8", "9"}

DigitVal(c) ==
    CASE c = "0" -> 0 [] c = "1" -> 1 [] c = "2" -> 2 [] c = "3" -> 3
      [] c = "4" -> 4 [] c = "5" -> 5 [] c = "6" -> 6 [] c = "7" -> 7
      [] c = "8" -> 8 [] c = "9" -> 9

IsDigits(s) == Len(s) > 0 /\ \A i \in DOMAIN s : s[i] \in Digits

RECURSIVE DigitsValue(_)
DigitsValue(s) ==
    IF s = <<>> THEN 0
    ELSE 10 * DigitsValue(SubSeq(s, 1, Len(s) - 1)) + DigitVal(s[Len(s)])

\* to_numeric that maps what it cannot parse to 0
to_numeric_zero(raw) ==
    IF raw = Null THEN Null
    ELSE IF IsDigits(raw) THEN <<DigitsValue(raw)>>
    ELSE IF Len(raw) > 1 /\ raw[1] = "-" /\ IsDigits(Tail(raw))
         THEN <<0 - DigitsValue(Tail(raw))>>
         ELSE <<0>>

\* pd.to_numeric(..., errors="coerce") on one cell
to_numeric_coerce(raw) ==
    IF IsDigits(raw) THEN <<DigitsValue(raw)>>
    ELSE IF Len(raw) > 1 /\ raw[1] = "-" /\ IsDigits(Tail(raw))
         THEN <<0 - DigitsValue(Tail(raw))>>
         ELSE Null

to_numeric(s) == [i \in DOMAIN s |-> to_numeric_coerce(s[i])]

\* pd.to_datetime(..., errors="coerce").dt.hour on one cell holding "HH:MM"
to_datetime_hour(raw) ==
    IF /\ Len(raw) = 5
       /\ raw[3] = ":"
       /\ IsDigits(SubSeq(raw, 1, 2))
       /\ IsDigits(SubSeq(raw, 4, 5))
       /\ DigitsValue(SubSeq(raw, 1, 2)) < 24
       /\ DigitsValue(SubSeq(raw, 4, 5)) < 60
    THEN <<DigitsValue(SubSeq(raw, 1, 2))>>
    ELSE Null

\* DataFrame.dropna(subset=cols): the rows with no missing cell in cols
dropna_subset(t, cols) ==
    BoolIndex(t, [i \in 1..Len(t.rows) |->
                    \A c \in cols : t.rows[i][c] # Null])

\* groupby(key)[val].count(): per observed key, the rows whose val is present
groupby_count(t, key, val) ==
    [k \in unique(dropna(Col(t, key))) |->
        Cardinality({i \in 1..Len(t.rows) :
                        t.rows[i][key] = k /\ t.rows[i][val] # Null})]

\* groupby(key)[val].nunique(): per observed key, the distinct present vals
groupby_nunique(t, key, val) ==
    [k \in unique(dropna(Col(t, key))) |->
        Cardinality({t.rows[i][val] : i \in {j \in 1..Len(t.rows) :
                        t.rows[j][key] = k /\ t.rows[j][val] # Null}})]

\* Series.nunique(): distinct present values
nunique(s) == Cardinality(unique(dropna(s)))

FirstPos(s, k) == CHOOSE i \in DOMAIN s : s[i] = k /\ \A j \in 1..(i - 1) : s[j] # k

RECURSIVE SortDesc(_, _, _)
\* keys by descending count; equal counts keep the order given by rank
SortDesc(keys, cnt, rank) ==
    IF keys = {} THEN <<>>
    ELSE LET top == CHOOSE a \in keys : \A b \in keys \ {a} :
                        \/ cnt[a] > cnt[b]
                        \/ cnt[a] = cnt[b] /\ rank[a] < rank[b]
         IN  <<(<<top, cnt[top]>>)>> \o SortDesc(keys \ {top}, cnt, rank)

\* Series.value_counts(): <<value, count>> pairs of the present values, most
\* frequent first, equal counts in order of first appearance
value_counts(s) ==
    LET keys == unique(dropna(s))
        cnt == [k \in keys |-> Cardinality({i \in DOMAIN s : s[i] = k})]
        rank == [k \in keys |-> FirstPos(s, k)]
    IN  SortDesc(keys, cnt, rank)

\* reset_index().sort_values(by=val, ascending=False) of a groupby result with
\* integer group keys: equal values stay in group-key order
sort_values_desc(g) ==
    SortDesc(DOMAIN g, g, [k \in DOMAIN g |-> k[1]])

\* head that stops one row early
head_short(s, n) == SubSeq(s, 1, Min(n - 1, Len(s)))

head(s, n) == SubSeq(s, 1, Min(n, Len(s)))

TopN == 10

----------------------------------------------------------------------------
(* load_data and its cache *)

numeric_cols == <<"Interval_Length", "Temperature", "Humidity", "Count", "Distance">>

\* pd.read_csv: the file's columns and rows under a RangeIndex
read_csv(f) ==
    [columns |-> f.columns,
     index |-> [i \in 1..Len(f.rows) |-> i - 1],
     rows |-> f.rows]

\* one pass of the loop over numeric_cols
CoerceColumn(t, col) ==
    IF col \in t.columns THEN SetItem(t, col, to_numeric(Col(t, col))) ELSE t

RECURSIVE CoerceColumns(_, _)
CoerceColumns(t, k) ==
    IF k = 0 THEN t
    ELSE CoerceColumn(CoerceColumns(t, k - 1), numeric_cols[k])

\* the body of load_data, for a readable file
load_data == CoerceColumns(read_csv(file), Len(numeric_cols))

\* a cache that is never consulted
CallAlwaysExecutes == TRUE

\* a loader that swallows the failure and goes on with an empty table
CallNeverRaises == FALSE

\* a call of the @st.cache_data function: a hit returns a copy of the stored
\* value; a miss runs the body and stores what it returns; a body that raises
\* (the file is absent or does not parse) stores nothing
CallExecutes == ~cached
CallRaises == ~cached /\ ~fileReadable
CallStores == ~cached /\ fileReadable

----------------------------------------------------------------------------
(* the sidebar and the filter *)

\* options (and default) of a multiselect: df[c].dropna().unique()
Options(t, c) == IF c \in t.columns THEN unique(dropna(Col(t, c))) ELSE {}

\* the filter without the Location_Type mask
FilterRowsTwoMasks(t, ys, ss, ls) ==
    LET my == isin(Col(t, "Year"), ys)
        ms == isin(Col(t, "Season"), ss)
    IN  BoolIndex(t, [i \in 1..Len(t.rows) |-> my[i] /\ ms[i]])

\* line 79: the conjunction of the three isin masks, applied to df
FilterRows(t, ys, ss, ls) ==
    LET my == isin(Col(t, "Year"), ys)
        ms == isin(Col(t, "Season"), ss)
        ml == isin(Col(t, "Location_Type"), ls)
    IN  BoolIndex(t, [i \in 1..Len(t.rows) |-> my[i] /\ ms[i] /\ ml[i]])

\* line 102: the Start_Hour column written into filtered_df
WithStartHour(f) ==
    SetItem(f, "Start_Hour",
            [i \in 1..Len(f.rows) |-> to_datetime_hour(f.rows[i]["Start_Time"])])

\* filtered_df as a view of df: the assignment writes through
DfWrittenThrough(t, f) ==
    SetItem(t, "Start_Hour",
            [i \in 1..Len(t.rows) |-> to_datetime_hour(t.rows[i]["Start_Time"])])

\* df after line 102: filtered_df is the new frame made by the boolean
\* indexing of line 79, so the assignment does not reach df
DfAfterSetItem(t, f) == t

----------------------------------------------------------------------------
(* the KPIs and the fourteen views, each from filtered_df *)

\* KPIs read from the unfiltered table
KpiFrameUnfiltered(t, f) == t

\* the frame the KPI section reads
KpiFrame(t, f) == f

Metric(label, f) ==
    CASE label = "Total Observations" -> Len(f.rows)
      [] label = "Unique Species" -> nunique(Col(f, "Scientific_Name"))
      [] label = "Observers" -> nunique(Col(f, "Observer"))

season_counts(f) == groupby_count(f, "Season", "Scientific_Name")
hour_counts(f) == groupby_count(f, "Start_Hour", "Scientific_Name")
loc_counts(f) == groupby_nunique(f, "Location_Type", "Scientific_Name")
plot_counts(f) ==
    head(sort_values_desc(groupby_nunique(f, "Plot_Name", "Scientific_Name")), TopN)
top_species(f) == head(value_counts(Col(f, "Scientific_Name")), TopN)
id_method_counts(f) == value_counts(Col(f, "ID_Method"))
sex_counts(f) == value_counts(Col(f, "Sex"))
fig8_frame(f) == dropna_subset(f, {"Temperature", "Humidity", "Interval_Length"})
disturb_counts(f) == value_counts(Col(f, "Disturbance"))
fig10_frame(f) == dropna_subset(f, {"Distance"})
flyover_counts(f) == value_counts(Col(f, "Flyover_Observed"))
obs_counts(f) == head(value_counts(Col(f, "Observer")), TopN)
watchlist_counts(f) == value_counts(Col(f, "PIF_Watchlist_Status"))
aou_counts(f) == head(value_counts(Col(f, "AOU_Code")), TopN)

\* the data frame handed to each figure
ChartData(fig, f) ==
    CASE fig = "fig1" -> season_counts(f)
      [] fig = "fig2" -> hour_counts(f)
      [] fig = "fig3" -> loc_counts(f)
      [] fig = "fig4" -> plot_counts(f)
      [] fig = "fig5" -> top_species(f)
      [] fig = "fig6" -> id_method_counts(f)
      [] fig = "fig7" -> sex_counts(f)
      [] fig = "fig8" -> fig8_frame(f)
      [] fig = "fig9" -> disturb_counts(f)
      [] fig = "fig10" -> fig10_frame(f)
      [] fig = "fig11" -> flyover_counts(f)
      [] fig = "fig12" -> obs_counts(f)
      [] fig = "fig13" -> watchlist_counts(f)
      [] fig = "fig14" -> aou_counts(f)

----------------------------------------------------------------------------
(* the script, statement by statement *)

St(name, kind, needs) == [name |-> name, kind |-> kind, needs |-> needs]

\* Each statement that emits an element or can raise, in source order, with
\* the columns it looks up by name (a lookup of an absent column raises
\* KeyError).  kind: "element" emits static content, "widget" a multiselect,
\* "metric" a KPI, "chart" a figure; "load" is the call of load_data, "stmt"
\* computes without emitting.
Script ==
    << St("set_page_config", "element", {}),
       St("css", "element", {}),
       St("title", "element", {}),
       St("load_data", "load", {}),
       St("sidebar_header", "element", {}),
       St("years", "widget", {"Year"}),
       St("seasons", "widget", {"Season"}),
       St("locations", "widget", {"Location_Type"}),
       St("filtered_df", "stmt", {"Year", "Season", "Location_Type"}),
       St("Total Observations", "metric", {}),
       St("Unique Species", "metric", {"Scientific_Name"}),
       St("Observers", "metric", {"Observer"}),
       St("subheader_temporal", "element", {}),
       St("fig1", "chart", {"Season", "Scientific_Name"}),
       St("Start_Hour", "stmt", {"Start_Time"}),
       St("fig2", "chart", {"Scientific_Name"}),
       St("subheader_spatial", "element", {}),
       St("fig3", "chart", {"Location_Type", "Scientific_Name"}),
       St("fig4", "chart", {"Plot_Name", "Scientific_Name"}),
       St("subheader_species", "element", {}),
       St("fig5", "chart", {"Scientific_Name"}),
       St("fig6", "chart", {"ID_Method"}),
       St("fig7", "chart", {"Sex"}),
       St("subheader_environment", "element", {}),
       St("fig8", "chart", {"Temperature", "Humidity", "Interval_Length",
                            "Season", "Scientific_Name"}),
       St("fig9", "chart", {"Disturbance"}),
       St("subheader_distance", "element", {}),
       St("fig10", "chart", {"Distance"}),
       St("fig11", "chart", {"Flyover_Observed"}),
       St("subheader_observer", "element", {}),
       St("fig12", "chart", {"Observer"}),
       St("subheader_conservation", "element", {}),
       St("fig13", "chart", {"PIF_Watchlist_Status"}),
       St("fig14", "chart", {"AOU_Code"}),
       St("footer", "element", {}) >>

\* whether statement k completes: the load unless it raised, any other
\* statement when the columns it names exist
Completes(k, t, loadRaised) ==
    IF Script[k].kind = "load" THEN ~loadRaised
    ELSE Script[k].needs \subseteq t.columns

\* the number of statements that ran to completion: an uncaught exception
\* ends the run at the statement that raised it
Completed(t, loadRaised) ==
    IF \A k \in DOMAIN Script : Completes(k, t, loadRaised) THEN Len(Script)
    ELSE (CHOOSE k \in DOMAIN Script :
              /\ ~Completes(k, t, loadRaised)
              /\ \A j \in 1..(k - 1) : Completes(j, t, loadRaised)) - 1

Emits(st) == st.kind \in {"element", "widget", "metric", "chart"}

Ran(name, n) == \E k \in 1..n : Script[k].name = name

\* the names of the first n statements that emit something
RECURSIVE Emitted(_)
Emitted(n) ==
    IF n = 0 THEN <<>>
    ELSE IF Emits(Script[n]) THEN Append(Emitted(n - 1), Script[n].name)
    ELSE Emitted(n - 1)

Names(kind, n) == {Script[k].name : k \in {j \in 1..n : Script[j].kind = kind}}

----------------------------------------------------------------------------
(* the files the program is started on *)

\* a complete observation record; categories other than the three filter
\* columns are numbered
Base ==
    [Year |-> <<2020>>, Season |-> <<"Spring">>, Location_Type |-> <<"Forest">>,
     Scientific_Name |-> <<1>>, Observer |-> <<1>>, Plot_Name |-> <<1>>,
     ID_Method |-> <<1>>, Sex |-> <<1>>, Disturbance |-> <<1>>,
     Flyover_Observed |-> <<1>>, PIF_Watchlist_Status |-> <<1>>,
     AOU_Code |-> <<1>>,
     Start_Time |-> <<"0", "7", ":", "3", "0">>,
     Interval_Length |-> <<"5">>, Temperature |-> <<"2", "0">>,
     Humidity |-> <<"6", "0">>, Count |-> <<"1">>, Distance |-> <<"5", "0">>]

Columns == DOMAIN Base

CategoryCols ==
    {"Scientific_Name", "Observer", "Plot_Name", "ID_Method", "Sex",
     "Disturbance", "Flyover_Observed", "PIF_Watchlist_Status", "AOU_Code"}

\* the other cells a row of RowPool may hold in a column
Alt(c) ==
    CASE c = "Year" -> {<<2021>>, Null}
      [] c = "Season" -> {<<"Fall">>}
      [] c = "Location_Type" -> {<<"Grassland">>}
      [] c = "Scientific_Name" -> {<<2>>, Null}
      [] c = "Start_Time" -> {<<"2", "5", ":", "0", "0">>}
      [] c = "Temperature" -> {<<"-", "3">>, <<"x">>}
      [] c = "Distance" -> {<<"1", "x">>}
      [] OTHER -> {}

\* Base, and Base with one cell replaced
RowPool ==
    {Base} \cup UNION {{[Base EXCEPT ![c] = v] : v \in Alt(c)} : c \in Columns}

RECURSIVE SeqsUpTo(_, _)
SeqsUpTo(S, n) ==
    IF n = 0 THEN {<<>>}
    ELSE LET shorter == SeqsUpTo(S, n - 1)
         IN  shorter \cup {Append(q, x) : q \in {r \in shorter : Len(r) = n - 1}, x \in S}

\* files of up to MaxRows rows of RowPool, all columns present
PoolFiles == {[columns |-> Columns, rows |-> q] : q \in SeqsUpTo(RowPool, MaxRows)}

\* a file of n rows over d categories, cycled through in row order, in every
\* category column at once; its last z rows have no category
ManyRow(i, n, d, z) ==
    [c \in Columns |->
        IF c \in CategoryCols
        THEN (IF i > n - z THEN Null ELSE <<((i - 1) % d) + 1>>)
        ELSE Base[c]]

ManyFile(n, d, z) ==
    [columns |-> Columns, rows |-> [i \in 1..n |-> ManyRow(i, n, d, z)]]

ManyFiles ==
    UNION {{ManyFile(n, d, z) : d \in 1..n, z \in 0..MaxNull} : n \in 1..MaxAggRows}

TwoRows == <<Base, [Base EXCEPT !["Year"] = <<2021>>]>>

\* the two-row file with one column absent
WithoutColumn(c) ==
    [columns |-> Columns \ {c},
     rows |-> [i \in 1..Len(TwoRows) |-> [k \in Columns \ {c} |-> TwoRows[i][k]]]]

\* the two-row file with one column holding only missing values
AllNullColumn(c) ==
    [columns |-> Columns,
     rows |-> [i \in 1..Len(TwoRows) |-> [TwoRows[i] EXCEPT ![c] = Null]]]

AnomalyFiles ==
    {WithoutColumn(c) : c \in Columns} \cup {AllNullColumn(c) : c \in Columns}

Files == PoolFiles \cup ManyFiles \cup AnomalyFiles

----------------------------------------------------------------------------
(* the runs *)

Init ==
    /\ fileReadable \in BOOLEAN
    /\ file \in (IF fileReadable THEN Files ELSE {[columns |-> {}, rows |-> <<>>]})
    /\ cached = FALSE
    /\ cache = EmptyTable
    /\ loadCalls = 0
    /\ years = {}
    /\ seasons = {}
    /\ locations = {}
    /\ status = "idle"
    /\ completed = 0
    /\ rendered = <<>>
    /\ df = EmptyTable
    /\ filtered_df = EmptyTable
    /\ metrics = <<>>
    /\ charts = <<>>

\* one execution of the script, top to bottom.  A fresh session's widgets take
\* their defaults; otherwise they return the values ys, ss, ls of the session.
RunScript(fresh, ys, ss, ls) ==
    LET n == completed'
        \* what load_data returned
        t == IF CallRaises THEN EmptyTable ELSE cache'
        f0 == IF Ran("filtered_df", n)
              THEN FilterRows(t, years', seasons', locations') ELSE EmptyTable
    IN  /\ cached' = (cached \/ CallStores)
        /\ cache' = IF CallStores THEN load_data ELSE cache
        /\ loadCalls' = loadCalls + (IF CallExecutes THEN 1 ELSE 0)
        /\ completed' = Completed(t, CallRaises)
        /\ years' = IF ~Ran("years", n) THEN {}
                    ELSE IF fresh THEN Options(t, "Year") ELSE ys
        /\ seasons' = IF ~Ran("seasons", n) THEN {}
                      ELSE IF fresh THEN Options(t, "Season") ELSE ss
        /\ locations' = IF ~Ran("locations", n) THEN {}
                        ELSE IF fresh THEN Options(t, "Location_Type") ELSE ls
        /\ status' = IF n = Len(Script) THEN "done" ELSE "error"
        \* an uncaught exception is shown on the page where the run stopped
        /\ rendered' = IF n = Len(Script) THEN Emitted(n)
                       ELSE Append(Emitted(n), "exception")
        /\ filtered_df' = IF Ran("Start_Hour", n) THEN WithStartHour(f0) ELSE f0
        /\ df' = IF ~Ran("load_data", n) THEN EmptyTable
                 ELSE IF Ran("Start_Hour", n) THEN DfAfterSetItem(t, filtered_df')
                 ELSE t
        \* the KPIs and fig1 are computed before line 102 writes Start_Hour,
        \* a column that none of them reads
        /\ metrics' = [m \in Names("metric", n) |->
                          Metric(m, KpiFrame(df', filtered_df'))]
        /\ charts' = [c \in Names("chart", n) |-> ChartData(c, filtered_df')]
        /\ UNCHANGED <<fileReadable, file>>

OnPage(name) == \E i \in DOMAIN rendered : rendered[i] = name

CanRun == cached \/ loadCalls < MaxLoads

\* a browser opens the page: a new session, its widgets at their defaults
NewSession ==
    /\ CanRun
    /\ RunScript(TRUE, {}, {}, {})

\* the user reruns the script without touching a widget
Rerun ==
    /\ status # "idle"
    /\ CanRun
    /\ RunScript(FALSE, years, seasons, locations)

\* the user changes a multiselect, which reruns the script
ChangeYears(S) ==
    /\ OnPage("years")
    /\ S # years
    /\ RunScript(FALSE, S, seasons, locations)

ChangeSeasons(S) ==
    /\ OnPage("seasons")
    /\ S # seasons
    /\ RunScript(FALSE, years, S, locations)

ChangeLocations(S) ==
    /\ OnPage("locations")
    /\ S # locations
    /\ RunScript(FALSE, years, seasons, S)

Next ==
    \/ NewSession
    \/ Rerun
    \/ \E S \in SUBSET Options(df, "Year") : ChangeYears(S)
    \/ \E S \in SUBSET Options(df, "Season") : ChangeSeasons(S)
    \/ \E S \in SUBSET Options(df, "Location_Type") : ChangeLocations(S)

Spec == Init /\ [][Next]_vars

----------------------------------------------------------------------------
(* Properties *)

RanTo(name) == Ran(name, completed)

Positions(t) == 1..Len(t.rows)

Labels(t) == {t.index[k] : k \in DOMAIN t.index}

\* row i of df passes the three selections
Selected(i) ==
    /\ df.rows[i]["Year"] \in years
    /\ df.rows[i]["Season"] \in seasons
    /\ df.rows[i]["Location_Type"] \in locations

\* row k of filtered_df is the row of df carrying the same index label
SameAsLoaded(k) ==
    \E i \in Positions(df) :
        /\ df.index[i] = filtered_df.index[k]
        /\ Selected(i)
        /\ \A c \in df.columns : filtered_df.rows[k][c] = df.rows[i][c]

\* C1: whenever a run has evaluated the filter, filtered_df holds exactly the
\* rows of df whose Year is in years and whose Season is in seasons and whose
\* Location_Type is in locations: each of its rows is such a row of df, each
\* such row is in it once, and it has no more rows than df.
C1_FilterIsConjunction ==
    RanTo("filtered_df") =>
        /\ \A k \in Positions(filtered_df) : SameAsLoaded(k)
        /\ Labels(filtered_df) = {df.index[i] : i \in {j \in Positions(df) : Selected(j)}}
        /\ Len(filtered_df.rows) = Cardinality({j \in Positions(df) : Selected(j)})
        /\ Len(filtered_df.rows) <= Len(df.rows)

\* a table with 2020 and 2021 rows filtered down to its 2021 rows
C1_Witness ==
    /\ RanTo("filtered_df")
    /\ years = {<<2021>>}
    /\ \E i \in Positions(df) : df.rows[i]["Year"] = <<2020>>
    /\ Len(filtered_df.rows) >= 1
    /\ \A k \in Positions(filtered_df) : filtered_df.rows[k]["Year"] = <<2021>>

DefaultSelections ==
    /\ years = Options(df, "Year")
    /\ seasons = Options(df, "Season")
    /\ locations = Options(df, "Location_Type")

\* C2: with each selection equal to all values observed in its column, the
\* filtered table has the same rows as the loaded table.
C2_DefaultsKeepEveryRow ==
    (RanTo("filtered_df") /\ DefaultSelections) => filtered_df.index = df.index

\* C3: whenever a run has evaluated the filter with an empty years, seasons or
\* locations selection, filtered_df has no rows.
C3_EmptySelectionEmptyResult ==
    (RanTo("filtered_df") /\ (years = {} \/ seasons = {} \/ locations = {}))
        => Len(filtered_df.rows) = 0

\* years emptied while every row passes the other two selections
C3_Witness ==
    /\ RanTo("filtered_df")
    /\ years = {}
    /\ Len(df.rows) > 0
    /\ \A i \in Positions(df) :
           /\ df.rows[i]["Year"] # Null
           /\ df.rows[i]["Season"] \in seasons
           /\ df.rows[i]["Location_Type"] \in locations
    /\ Len(filtered_df.rows) = 0

Present(t, c) == {t.rows[i][c] : i \in Positions(t)} \ {Null}

\* C4: every KPI a run emits is computed from filtered_df: Total Observations
\* is its row count, Unique Species the number of distinct present
\* Scientific_Name values in it, Observers the number of distinct present
\* Observer values in it; a run that ends normally emits all three.
C4_KpisFromFiltered ==
    /\ \A m \in DOMAIN metrics :
        /\ m = "Total Observations" => metrics[m] = Len(filtered_df.rows)
        /\ m = "Unique Species" =>
               metrics[m] = Cardinality(Present(filtered_df, "Scientific_Name"))
        /\ m = "Observers" =>
               metrics[m] = Cardinality(Present(filtered_df, "Observer"))
    /\ status = "done" =>
           DOMAIN metrics = {"Total Observations", "Unique Species", "Observers"}

\* KPIs of a proper, non-empty part of a table with two species
C4_Witness ==
    /\ status = "done"
    /\ Len(filtered_df.rows) > 0
    /\ Len(filtered_df.rows) < Len(df.rows)
    /\ Cardinality(Present(df, "Scientific_Name")) = 2
    /\ metrics["Unique Species"] = 1
    /\ metrics["Total Observations"] = Len(filtered_df.rows)

CountViews ==
    {"fig1", "fig2", "fig5", "fig6", "fig7", "fig9", "fig11", "fig12", "fig13", "fig14"}

GroupByViews == {"fig1", "fig2"}

TopViews == {"fig5", "fig12", "fig14"}

KeyColumn(fig) ==
    CASE fig = "fig1" -> "Season"
      [] fig = "fig2" -> "Start_Hour"
      [] fig = "fig5" -> "Scientific_Name"
      [] fig = "fig6" -> "ID_Method"
      [] fig = "fig7" -> "Sex"
      [] fig = "fig9" -> "Disturbance"
      [] fig = "fig11" -> "Flyover_Observed"
      [] fig = "fig12" -> "Observer"
      [] fig = "fig13" -> "PIF_Watchlist_Status"
      [] fig = "fig14" -> "AOU_Code"

RECURSIVE SumPairs(_)
SumPairs(s) == IF s = <<>> THEN 0 ELSE s[1][2] + SumPairs(Tail(s))

RECURSIVE SumOver(_, _)
SumOver(g, K) ==
    IF K = {} THEN 0
    ELSE LET k == CHOOSE x \in K : TRUE IN g[k] + SumOver(g, K \ {k})

\* the counts handed to a count-based figure, summed
CountTotal(fig) ==
    IF fig \in GroupByViews THEN SumOver(charts[fig], DOMAIN charts[fig])
    ELSE SumPairs(charts[fig])

NoneMissing(c) == \A i \in Positions(filtered_df) : filtered_df.rows[i][c] # Null

\* the view counts every row of filtered_df: no row lacks the view's key (for
\* the two group-by views, nor a Scientific_Name), and a top-10 view has at
\* most ten keys
CountsEveryRow(fig) ==
    /\ NoneMissing(KeyColumn(fig))
    /\ fig \in GroupByViews => NoneMissing("Scientific_Name")
    /\ fig \in TopViews => Cardinality(Present(filtered_df, KeyColumn(fig))) <= TopN

\* C5 as stated: the counts of every count-based view sum to the row count of
\* filtered_df.
C5_CountsSumToRowCount ==
    \A fig \in DOMAIN charts \cap CountViews :
        CountTotal(fig) = Len(filtered_df.rows)

\* C5 as amended: the counts of every count-based view sum to at most the row
\* count of filtered_df, and to exactly the row count when no filtered row lacks
\* the view's key (for the Season and Start_Hour views, nor a Scientific_Name)
\* and, for a top-10 view, the key takes at most ten values.
C5_CountsSumWithinRowCount ==
    \A fig \in DOMAIN charts \cap CountViews :
        /\ CountTotal(fig) <= Len(filtered_df.rows)
        /\ CountsEveryRow(fig) => CountTotal(fig) = Len(filtered_df.rows)

\* a top-10 view of more than ten rows over exactly ten species
C5_Witness ==
    /\ status = "done"
    /\ Len(filtered_df.rows) > TopN
    /\ Len(charts["fig5"]) = TopN
    /\ CountsEveryRow("fig5")
    /\ CountTotal("fig5") = Len(filtered_df.rows)

\* C6 as stated: the body of load_data executes at most once in the process.
C6_BodyAtMostOnce == loadCalls <= 1

\* C6 as amended: once a call of load_data has returned a table, no later run
\* executes the body again and the memoized table stays as it is (a call whose
\* load fails memoizes nothing, and the next run executes the body again).
C6_NoReloadOnceMemoized ==
    [][cached => (cached' /\ loadCalls' = loadCalls /\ cache' = cache)]_vars

\* a run after the first one, served from the cache
C6_Witness ==
    /\ cached
    /\ loadCalls = 1
    /\ status = "done"
    /\ years # Options(df, "Year")

LoadFailed == status # "idle" /\ ~cached

\* C7 as stated: a run whose load fails renders no page element at all, only
\* the error.
C7_NothingRenderedOnLoadFailure ==
    LoadFailed =>
        /\ status = "error"
        /\ \A i \in DOMAIN rendered : rendered[i] = "exception"

\* C7 as amended: a run whose load fails ends in an error shown to the user
\* after the page setup, the CSS and the title, which precede the load; no
\* sidebar filter, KPI or chart is rendered and no table stands in for the
\* missing one.
C7_OnlyHeaderOnLoadFailure ==
    LoadFailed =>
        /\ status = "error"
        /\ rendered = <<"set_page_config", "css", "title", "exception">>
        /\ metrics = <<>>
        /\ charts = <<>>
        /\ df = EmptyTable
        /\ filtered_df = EmptyTable
        /\ years = {} /\ seasons = {} /\ locations = {}

\* a second failed load in the same process
C7_Witness == LoadFailed /\ loadCalls = 2 /\ status = "error"

\* the columns a view reads, Start_Time for the Start_Hour view
ViewColumns(k) ==
    Script[k].needs \cup (IF Script[k].name = "fig2" THEN {"Start_Time"} ELSE {})

\* C8: when the table lacks a column (the three filter columns apart), every
\* KPI and chart that does not read that column is still rendered, and the run
\* is not aborted.
C8_AnomalyDegradesOneViewOnly ==
    (/\ status # "idle"
     /\ cached
     /\ {"Year", "Season", "Location_Type"} \subseteq cache.columns)
    => /\ \A k \in DOMAIN Script :
              (/\ Script[k].kind \in {"metric", "chart"}
               /\ ViewColumns(k) \subseteq cache.columns)
              => OnPage(Script[k].name)
       /\ OnPage("footer")

NumericCols == {numeric_cols[k] : k \in DOMAIN numeric_cols}

RECURSIVE Decimal(_)
\* the decimal numeral of an integer, as a sequence of characters
Decimal(n) ==
    IF n < 0 THEN <<"-">> \o Decimal(0 - n)
    ELSE LET d == CHOOSE c \in Digits : DigitVal(c) = n % 10
         IN  IF n < 10 THEN <<d>> ELSE Append(Decimal(n \div 10), d)

NumeralRange == (0 - 99)..99

IsNumeral(raw) == \E n \in NumeralRange : Decimal(n) = raw

\* C9: the memoized table has the rows and columns of the file; in each of the
\* five numeric columns a field that is the numeral of a number holds that
\* number and any other field holds the missing marker; every other column is
\* as read.
C9_NumericColumnsCoerced ==
    cached =>
        /\ cache.columns = file.columns
        /\ Len(cache.rows) = Len(file.rows)
        /\ \A i \in Positions(cache) : \A c \in cache.columns :
            IF c \in NumericCols
            THEN \/ /\ cache.rows[i][c] = Null
                    /\ ~IsNumeral(file.rows[i][c])
                 \/ /\ cache.rows[i][c] # Null
                    /\ Len(cache.rows[i][c]) = 1
                    /\ cache.rows[i][c][1] \in NumeralRange
                    /\ Decimal(cache.rows[i][c][1]) = file.rows[i][c]
            ELSE cache.rows[i][c] = file.rows[i][c]

\* a load that met an unparsable field and a negative number
C9_Witness ==
    /\ cached
    /\ {"Temperature", "Humidity"} \subseteq cache.columns
    /\ \E i \in Positions(cache) :
           file.rows[i]["Temperature"] = <<"x">> /\ cache.rows[i]["Temperature"] = Null
    /\ \E i \in Positions(cache) : cache.rows[i]["Temperature"] = <<0 - 3>>
    /\ \E i \in Positions(cache) : cache.rows[i]["Humidity"] = <<60>>

\* C10: the memoized table is the table load_data returned, without a
\* Start_Hour column, after any runs; the df of a run is that table still when
\* the run ends, and Start_Hour is in filtered_df alone.
C10_LoadedTableReadOnly ==
    /\ cached => (cache = load_data /\ "Start_Hour" \notin cache.columns)
    /\ RanTo("load_data") => df = cache
    /\ RanTo("Start_Hour") => "Start_Hour" \in filtered_df.columns

\* Start_Hour written into a non-empty view by a run after the first
C10_Witness ==
    /\ cached
    /\ RanTo("Start_Hour")
    /\ Len(filtered_df.rows) > 0
    /\ \E i \in Positions(filtered_df) : filtered_df.rows[i]["Start_Hour"] = <<7>>
    /\ seasons # Options(df, "Season")
    /\ df = cache

====
